---- MODULE Spec2Model ----
(***************************************************************************)
(* Model of reactive_graph/src/effect/effect.rs: one effect, built by one  *)
(* of the five constructors, its driving loop, and the operations on its   *)
(* handle (stop, dispose, to_any_subscriber).  The collaborators whose     *)
(* code lives in other files of the crate (the notifier channel, the       *)
(* subscriber record, the ownership scope, the arena slot, the signals)    *)
(* are modelled from the interface the specification gives for them.       *)
(***************************************************************************)
EXTENDS Integers, FiniteSets, Sequences, TLC

(* ------------------------------ bounds --------------------------------- *)
\* number of signal writes the environment performs
MaxSets == 2
\* run_in_effect_scope calls one thread makes
MaxCalls == 3

(* ------------------------------ constants ------------------------------ *)
Signals == {"V", "F", "H"}
Flavors == {"new", "watch", "new_sync", "new_isomorphic", "watch_sync"}
Kinds == {"nodeps", "readV", "condV"}
\* a signal holds one of two values, enough to tell a change from a rewrite
Values == {0, 1}

\* Option<T>: None is the empty tuple, Some(x) the 1-tuple
None == <<>>
Some(x) == <<x>>
UnwrapOr(o, d) == IF o = None THEN d ELSE o[1]

VARIABLES
  effects,      \* cfg!(feature = "effects")
  flavor,       \* constructor that built the effect ("none" before construction)
  immediate,    \* watch / watch_sync: the `immediate` argument
  kind,         \* which reactive values the user function reads
  slot,         \* Effect.inner and its arena slot
  dirty,        \* EffectInner.dirty
  sources,      \* EffectInner.sources
  pending,      \* the notifier holds a wake
  pc,           \* position of the spawned task
  first_run,    \* the loop's `first_run` local
  value,        \* Effect::new / new_isomorphic: the `value` cell
  old_value,    \* the loop's `old_value` local, the argument of fun.run
  dep_value,    \* watch: the `dep_value` cell
  watch_value,  \* watch: the `watch_value` cell
  new_dep,      \* watch: the loop's `new_dep_value` local
  old_dep,      \* watch: the loop's `old_dep_value` local
  old_watch,    \* watch: the loop's `old_watch_value` local
  paused,       \* owner.paused()
  owned,        \* the owner holds resources registered by the latest run
  observer,     \* the ambient observer is this effect's subscriber
  scope,        \* EFFECT_SCOPE_ACTIVE of the thread that runs the task
  initial,      \* run_in_effect_scope's `initial` local
  val,          \* current value of each signal
  subs,         \* signals whose subscriber set holds this effect
  resolved,     \* outcome of the latest to_any_subscriber call
  sets,         \* history: number of signal writes so far
  started,      \* history: executions of fun / dependency_fn begun
  completed,    \* history: qualifying iterations run to their end
  handlerCalls, \* history: handler invocations begun
  notified,     \* history: mark_dirty calls that reached the live record
  batches,      \* history: mark_dirty calls that found the record clean
  wakeAfterStop,\* history: the wake now being handled was delivered after stop/dispose
  hSeen,        \* history: value of H read by the latest handler invocation
  EFFECT_SCOPE_ACTIVE, \* the thread-local flag, one per thread
  frames,       \* per thread, the `initial` locals of the calls in progress
  calls,        \* history: per thread, run_in_effect_scope calls begun
  seen          \* history: per thread, depth and result of the latest query

vars == <<effects, flavor, immediate, kind, slot, dirty, sources, pending, pc,
          first_run, value, old_value, dep_value, watch_value, new_dep, old_dep,
          old_watch, paused, owned, observer, scope, initial, val, subs,
          resolved, sets, started, completed, handlerCalls, notified,
          batches, wakeAfterStop, hSeen, EFFECT_SCOPE_ACTIVE, frames, calls,
          seen>>

recordVars == <<dirty, sources>>
cellVars == <<value, old_value, dep_value, watch_value, new_dep, old_dep, old_watch>>
configVars == <<effects, flavor, immediate, kind>>
histVars == <<sets, started, completed, handlerCalls, notified, batches,
              wakeAfterStop, hSeen>>
scopeVars == <<EFFECT_SCOPE_ACTIVE, frames, calls, seen>>

(* ------------------------------ helpers -------------------------------- *)
Threads == {"t1", "t2"}
IsWatch == flavor \in {"watch", "watch_sync"}
IsSync == flavor \in {"new_sync", "new_isomorphic", "watch_sync"}
\* the record (Arc<RwLock<EffectInner>>) exists: the arena slot holds Some(inner)
Alive == slot = "live"
\* the notifier's only producer lives inside the record
Closed == ~Alive

Init ==
  /\ effects \in BOOLEAN
  /\ flavor = "none"
  /\ immediate = FALSE
  /\ kind = "nodeps"
  /\ slot = "absent"
  /\ dirty = FALSE
  /\ sources = {}
  /\ pending = FALSE
  /\ pc = "none"
  /\ first_run = TRUE
  /\ value = None
  /\ old_value = None
  /\ dep_value = None
  /\ watch_value = None
  /\ new_dep = None
  /\ old_dep = None
  /\ old_watch = None
  /\ paused = FALSE
  /\ owned = FALSE
  /\ observer = FALSE
  /\ scope = FALSE
  /\ initial = FALSE
  /\ val = [s \in Signals |-> IF s = "F" THEN 1 ELSE 0]
  /\ subs = {}
  /\ resolved = "none"
  /\ sets = 0
  /\ started = 0
  /\ completed = 0
  /\ handlerCalls = 0
  /\ notified = 0
  /\ batches = 0
  /\ wakeAfterStop = FALSE
  /\ hSeen = None
  /\ EFFECT_SCOPE_ACTIVE = [t \in Threads |-> FALSE]
  /\ frames = [t \in Threads |-> <<>>]
  /\ calls = [t \in Threads |-> 0]
  /\ seen = [t \in Threads |-> None]

(* ---------------------------- construction ----------------------------- *)
\* new_sync delegating to new_isomorphic without its feature check
SpawnsSyncUnchecked(fl, eff) == fl \in {"new_isomorphic", "new_sync"} \/ eff

\* whether the constructor keeps the record and spawns the loop
Spawns(fl, eff) == fl = "new_isomorphic" \/ eff

\* effect_base without `observer.notify()`
NoInitialWake == FALSE

\* effect_base: `observer.notify()` queues one wake before the task is spawned
InitialWake == TRUE

\* Effect::new, Effect::watch, Effect::new_sync, Effect::new_isomorphic,
\* Effect::watch_sync, each with effect_base inlined
Create(fl, imm, k) ==
  /\ slot = "absent"
  /\ fl \in {"watch", "watch_sync"} \/ imm = FALSE
  /\ flavor' = fl
  /\ immediate' = imm
  /\ kind' = k
  /\ IF Spawns(fl, effects)
       THEN /\ slot' = "live"
            /\ dirty' = TRUE
            /\ pending' = InitialWake
            /\ pc' = "await"
       ELSE /\ slot' = "inert"
            /\ dirty' = FALSE
            /\ pending' = FALSE
            /\ pc' = "none"
  /\ sources' = {}
  /\ first_run' = TRUE
  /\ UNCHANGED <<effects, scopeVars, cellVars, paused, owned, observer, scope, initial, val,
                 subs, resolved, histVars>>

(* --------------------- collaborators of the loop ----------------------- *)
\* ReactiveNode::update_if_necessary of the subscriber: a dropped record is
\* never stale, a live one is stale when its dirty flag is set
Stale == Alive /\ dirty

\* the reactive values the user function (or dependency_fn) reads in one run
ReadSet(k, v) ==
  CASE k = "nodeps" -> {}
    [] k = "readV" -> {"V"}
    [] k = "condV" -> IF v["F"] = 1 THEN {"F", "V"} ELSE {"F"}

\* a read under the ambient observer records the source in the live record
Tracked(reads) == IF observer /\ Alive THEN reads ELSE {}

\* the value dependency_fn returns
DepResult(k, v) == IF "V" \in ReadSet(k, v) THEN v["V"] ELSE 0

\* the user function / handler of the model: previous.unwrap_or(0) + 1
Fun(prev) == UnwrapOr(prev, 0) + 1

(* ----------------------------- driving loop ---------------------------- *)
\* the gate with `&&` in place of `||`
GateOpenBoth(p, stale, first) == ~p /\ (stale /\ first)

\* the gate without the staleness test: every wake of an unpaused scope runs
GateOpenAlways(p, stale, first) == ~p

\* `!owner.paused() && (update_if_necessary() || first_run)`
GateOpen(p, stale, first) == ~p /\ (stale \/ first)

\* the body without `first_run = false`
FirstRunKept == TRUE

\* Effect::new sets `first_run = false` on entering the body
FirstRunInBody == FALSE

\* the body without clear_sources
SourcesKept(srcs) == srcs

\* subscriber.clear_sources(&subscriber)
SourcesAfterClear(srcs) == {}

\* the body without the store of new_value
StoredNothing(new) == None

\* `*value.write() = Some(new_value)`
StoredValue(new) == Some(new)

\* the handler called on every qualifying iteration
HandlerAlways(imm, first) == TRUE

\* `if immediate || !first_run`
HandlerDue(imm, first) == imm \/ ~first

\* the handler called inside with_observer
ObserverKept == TRUE

\* the handler is called after with_observer(&mut dependency_fn) has returned
ObserverInHandler == FALSE

\* rx.next().await yields Some(()): the queued wake is consumed
AwaitWake ==
  /\ pc = "await"
  /\ pending
  /\ pending' = FALSE
  /\ pc' = "gate"
  /\ wakeAfterStop' = Closed
  /\ UNCHANGED <<configVars, scopeVars, slot, recordVars, first_run, cellVars, paused, owned,
                 observer, scope, initial, val, subs, resolved, sets, started, completed, handlerCalls, notified, batches, hSeen>>

\* the loop taking the end of the stream for one more wake
AwaitIgnoresClose ==
  /\ pc = "await"
  /\ Closed
  /\ pc' = "gate"
  /\ pending' = FALSE
  /\ UNCHANGED <<configVars, scopeVars, slot, recordVars, first_run, cellVars, paused, owned,
                 observer, scope, initial, val, subs, resolved, histVars>>

\* rx.next().await yields None: the producer is gone, the task ends
AwaitClosed ==
  /\ pc = "await"
  /\ Closed
  /\ pc' = "done"
  /\ pending' = FALSE
  /\ UNCHANGED <<configVars, scopeVars, slot, recordVars, first_run, cellVars, paused, owned,
                 observer, scope, initial, val, subs, resolved, histVars>>

\* the condition with its operands swapped: update_if_necessary is called
\* before the pause test
GateUpdatesFirst ==
  /\ pc = "gate"
  /\ dirty' = FALSE
  /\ IF GateOpen(paused, Stale, first_run)
       THEN pc' = "body" /\ UNCHANGED wakeAfterStop
       ELSE pc' = "await" /\ wakeAfterStop' = FALSE
  /\ UNCHANGED <<configVars, scopeVars, slot, sources, pending, first_run, cellVars, paused,
                 owned, observer, scope, initial, val, subs, resolved, sets, started, completed, handlerCalls, notified, batches, hSeen>>

\* the `if` of the loop body; update_if_necessary is not called when paused
Gate ==
  /\ pc = "gate"
  /\ dirty' = IF paused THEN dirty ELSE FALSE
  /\ IF GateOpen(paused, Stale, first_run)
       THEN pc' = "body" /\ UNCHANGED wakeAfterStop
       ELSE pc' = "await" /\ wakeAfterStop' = FALSE
  /\ UNCHANGED <<configVars, scopeVars, slot, sources, pending, first_run, cellVars, paused,
                 owned, observer, scope, initial, val, subs, resolved, sets, started, completed, handlerCalls, notified, batches, hSeen>>

\* Effect::new / new_isomorphic: from `first_run = false` to the call of fun.run
BeginPlain ==
  /\ pc = "body"
  /\ ~IsWatch
  /\ first_run' = FirstRunInBody
  /\ subs' = (subs \ sources) \cup SourcesAfterClear(sources)
  /\ sources' = SourcesAfterClear(sources)
  /\ old_value' = value
  /\ value' = None
  /\ owned' = FALSE
  /\ observer' = TRUE
  /\ initial' = scope
  /\ scope' = TRUE
  /\ started' = started + 1
  /\ pc' = "fn"
  /\ UNCHANGED <<configVars, scopeVars, slot, dirty, pending, dep_value, watch_value, new_dep,
                 old_dep, old_watch, paused, val, resolved, sets, completed,
                 handlerCalls, notified, batches, wakeAfterStop, hSeen>>

\* the user call detached from the loop: the loop awaits the next wake while
\* the call is still running
FnReadDetached ==
  /\ pc = "fn"
  /\ sources' = sources \cup Tracked(ReadSet(kind, val))
  /\ subs' = subs \cup Tracked(ReadSet(kind, val))
  /\ owned' = TRUE
  /\ pc' = "await"
  /\ UNCHANGED <<configVars, scopeVars, slot, dirty, pending, first_run, cellVars, paused,
                 observer, scope, initial, val, resolved, histVars>>

\* the user function reads its reactive values
FnRead ==
  /\ pc = "fn"
  /\ sources' = sources \cup Tracked(ReadSet(kind, val))
  /\ subs' = subs \cup Tracked(ReadSet(kind, val))
  /\ owned' = TRUE
  /\ pc' = "fnmid"
  /\ UNCHANGED <<configVars, scopeVars, slot, dirty, pending, first_run, cellVars, paused,
                 observer, scope, initial, val, resolved, histVars>>

\* the run marking the record clean when it ends
FnReturnClearsDirty ==
  /\ pc = "fnmid"
  /\ scope' = initial
  /\ observer' = FALSE
  /\ value' = StoredValue(Fun(old_value))
  /\ old_value' = None
  /\ dirty' = FALSE
  /\ completed' = completed + 1
  /\ wakeAfterStop' = FALSE
  /\ pc' = "await"
  /\ UNCHANGED <<configVars, scopeVars, slot, sources, pending, first_run, dep_value,
                 watch_value, new_dep, old_dep, old_watch, paused, owned, initial,
                 val, subs, resolved, sets, started, handlerCalls, notified, batches,
                 hSeen>>

\* the user function returns; its value becomes the previous output
FnReturn ==
  /\ pc = "fnmid"
  /\ scope' = initial
  /\ observer' = FALSE
  /\ value' = StoredValue(Fun(old_value))
  /\ old_value' = None
  /\ completed' = completed + 1
  /\ wakeAfterStop' = FALSE
  /\ pc' = "await"
  /\ UNCHANGED <<configVars, scopeVars, slot, recordVars, pending, first_run, dep_value,
                 watch_value, new_dep, old_dep, old_watch, paused, owned, initial,
                 val, subs, resolved, sets, started, handlerCalls, notified, batches,
                 hSeen>>

\* Effect::watch / watch_sync: from clear_sources to the call of dependency_fn
BeginWatch ==
  /\ pc = "body"
  /\ IsWatch
  /\ subs' = (subs \ sources) \cup SourcesAfterClear(sources)
  /\ sources' = SourcesAfterClear(sources)
  /\ old_dep' = dep_value
  /\ dep_value' = None
  /\ owned' = FALSE
  /\ observer' = TRUE
  /\ started' = started + 1
  /\ pc' = "dep"
  /\ UNCHANGED <<configVars, scopeVars, slot, dirty, pending, first_run, value, old_value,
                 watch_value, new_dep, old_watch, paused, scope, initial, val,
                 resolved, sets, completed, handlerCalls, notified, batches,
                 wakeAfterStop, hSeen>>

\* dependency_fn reads its reactive values and computes its result
DepRead ==
  /\ pc = "dep"
  /\ sources' = sources \cup Tracked(ReadSet(kind, val))
  /\ subs' = subs \cup Tracked(ReadSet(kind, val))
  /\ new_dep' = Some(DepResult(kind, val))
  /\ owned' = TRUE
  /\ pc' = "depmid"
  /\ UNCHANGED <<configVars, scopeVars, slot, dirty, pending, first_run, value, old_value,
                 dep_value, watch_value, old_dep, old_watch, paused, observer, scope,
                 initial, val, resolved, histVars>>

\* the store of the dependency value moved inside the `if` of the handler
DepReturnStoresWithHandler ==
  /\ pc = "depmid"
  /\ observer' = ObserverInHandler
  /\ IF HandlerDue(immediate, first_run)
       THEN /\ old_watch' = watch_value
            /\ watch_value' = None
            /\ handlerCalls' = handlerCalls + 1
            /\ pc' = "handler"
            /\ UNCHANGED <<dep_value, new_dep, old_dep, first_run, completed,
                           wakeAfterStop>>
       ELSE /\ watch_value' = None
            /\ dep_value' = dep_value
            /\ new_dep' = None
            /\ old_dep' = None
            /\ old_watch' = None
            /\ first_run' = FALSE
            /\ completed' = completed + 1
            /\ wakeAfterStop' = FALSE
            /\ pc' = "await"
            /\ UNCHANGED handlerCalls
  /\ UNCHANGED <<configVars, scopeVars, slot, recordVars, pending, value, old_value, paused,
                 owned, scope, initial, val, subs, resolved, sets, started,
                 notified, batches, hSeen>>

\* dependency_fn returns; watch_value is taken; the handler is called or skipped
DepReturn ==
  /\ pc = "depmid"
  /\ observer' = ObserverInHandler
  /\ IF HandlerDue(immediate, first_run)
       THEN /\ old_watch' = watch_value
            /\ watch_value' = None
            /\ handlerCalls' = handlerCalls + 1
            /\ pc' = "handler"
            /\ UNCHANGED <<dep_value, new_dep, old_dep, first_run, completed,
                           wakeAfterStop>>
       ELSE /\ watch_value' = None
            /\ dep_value' = new_dep
            /\ new_dep' = None
            /\ old_dep' = None
            /\ old_watch' = None
            /\ first_run' = FALSE
            /\ completed' = completed + 1
            /\ wakeAfterStop' = FALSE
            /\ pc' = "await"
            /\ UNCHANGED handlerCalls
  /\ UNCHANGED <<configVars, scopeVars, slot, recordVars, pending, value, old_value, paused,
                 owned, scope, initial, val, subs, resolved, sets, started,
                 notified, batches, hSeen>>

\* the handler reads H
HandlerRead ==
  /\ pc = "handler"
  /\ sources' = sources \cup Tracked({"H"})
  /\ subs' = subs \cup Tracked({"H"})
  /\ hSeen' = Some(val["H"])
  /\ pc' = "hmid"
  /\ UNCHANGED <<configVars, scopeVars, slot, dirty, pending, first_run, cellVars, paused, owned,
                 observer, scope, initial, val, resolved, sets, started,
                 completed, handlerCalls, notified, batches, wakeAfterStop>>

\* the handler returns; both cells are refilled and first_run is cleared
HandlerReturn ==
  /\ pc = "hmid"
  /\ watch_value' = Some(Fun(old_watch))
  /\ dep_value' = new_dep
  /\ new_dep' = None
  /\ old_dep' = None
  /\ old_watch' = None
  /\ first_run' = FALSE
  /\ observer' = FALSE
  /\ completed' = completed + 1
  /\ wakeAfterStop' = FALSE
  /\ pc' = "await"
  /\ UNCHANGED <<configVars, scopeVars, slot, recordVars, pending, value, old_value, paused,
                 owned, scope, initial, val, subs, resolved, sets, started,
                 handlerCalls, notified, batches, hSeen>>

Loop ==
  \/ AwaitWake
  \/ AwaitClosed
  \/ Gate
  \/ BeginPlain
  \/ FnRead
  \/ FnReturn
  \/ BeginWatch
  \/ DepRead
  \/ DepReturn
  \/ HandlerRead
  \/ HandlerReturn

(* ------------------------------ environment ---------------------------- *)
\* Code outside the task runs between the task's steps: on any step for the
\* cross-thread flavours, and for the single-thread flavours only while the
\* task is suspended at the await or is inside a user call (which may itself
\* write signals or stop the effect).
CanInterleave == IsSync \/ pc \notin {"gate", "body"}

\* the task exists and has not ended
TaskLive == pc \notin {"none", "done"}

\* the signals the environment writes: V always, F when the user function
\* consults it, H when there is a handler to read it
Written == {"V"} \cup (IF kind = "condV" THEN {"F"} ELSE {})
                 \cup (IF IsWatch THEN {"H"} ELSE {})

\* a signal write; subscribers are notified (mark_dirty) when the value changes
SetSignal(s, x) ==
  /\ TaskLive
  /\ s \in Written
  /\ CanInterleave
  /\ sets < MaxSets
  /\ sets' = sets + 1
  /\ val' = [val EXCEPT ![s] = x]
  /\ IF x # val[s] /\ s \in subs /\ Alive
       THEN /\ dirty' = TRUE
            /\ pending' = TRUE
            /\ notified' = notified + 1
            /\ batches' = IF dirty THEN batches ELSE batches + 1
       ELSE UNCHANGED <<dirty, pending, notified, batches>>
  /\ UNCHANGED <<configVars, slot, sources, pc, first_run, cellVars, paused, owned,
                 observer, scope, initial, subs, resolved, started, completed,
                 handlerCalls, wakeAfterStop, hSeen, scopeVars>>

\* stop marking the slot without dropping the record it held
StopKeepsRecord ==
  /\ slot # "absent"
  /\ CanInterleave
  /\ IF slot = "live"
       THEN slot' = "stopped" /\ UNCHANGED <<dirty, sources>>
       ELSE UNCHANGED <<slot, dirty, sources>>
  /\ UNCHANGED <<configVars, scopeVars, pending, pc, first_run, cellVars, paused, owned,
                 observer, scope, initial, val, subs, resolved, histVars>>

\* Effect::stop: takes the record out of the slot and drops it
Stop ==
  /\ slot # "absent"
  /\ CanInterleave
  /\ IF slot = "live"
       THEN slot' = "stopped" /\ dirty' = FALSE /\ sources' = {}
       ELSE UNCHANGED <<slot, dirty, sources>>
  /\ UNCHANGED <<configVars, scopeVars, pending, pc, first_run, cellVars, paused, owned,
                 observer, scope, initial, val, subs, resolved, histVars>>

\* Dispose for Effect: disposes the arena slot, dropping what it holds
Dispose ==
  /\ slot # "absent"
  /\ CanInterleave
  /\ IF slot \in {"live", "stopped"}
       THEN slot' = "disposed" /\ dirty' = FALSE /\ sources' = {}
       ELSE UNCHANGED <<slot, dirty, sources>>
  /\ UNCHANGED <<configVars, scopeVars, pending, pc, first_run, cellVars, paused, owned,
                 observer, scope, initial, val, subs, resolved, histVars>>

\* to_any_subscriber answering for every slot that still exists in the arena
ToAnySubscriberOfSlot ==
  /\ slot # "absent"
  /\ CanInterleave
  /\ resolved' = IF slot \in {"live", "stopped"} THEN "subscriber" ELSE "panic"
  /\ UNCHANGED <<configVars, scopeVars, slot, recordVars, pending, pc, first_run, cellVars,
                 paused, owned, observer, scope, initial, val, subs, histVars>>

\* ToAnySubscriber for Effect: the subscriber of the live record, else the
\* `expect` panics
ToAnySubscriber ==
  /\ slot # "absent"
  /\ CanInterleave
  /\ resolved' = IF slot = "live" THEN "subscriber" ELSE "panic"
  /\ UNCHANGED <<configVars, scopeVars, slot, recordVars, pending, pc, first_run, cellVars,
                 paused, owned, observer, scope, initial, val, subs, histVars>>

\* the ownership scope is paused / resumed
Pause ==
  /\ TaskLive
  /\ CanInterleave
  /\ ~paused
  /\ paused' = TRUE
  /\ UNCHANGED <<configVars, scopeVars, slot, recordVars, pending, pc, first_run, cellVars,
                 owned, observer, scope, initial, val, subs, resolved, sets, started,
                 completed, handlerCalls, notified, batches, wakeAfterStop, hSeen>>

Resume ==
  /\ TaskLive
  /\ paused
  /\ CanInterleave
  /\ paused' = FALSE
  /\ UNCHANGED <<configVars, scopeVars, slot, recordVars, pending, pc, first_run, cellVars,
                 owned, observer, scope, initial, val, subs, resolved, histVars>>

Next ==
  \/ \E fl \in Flavors, imm \in BOOLEAN, k \in Kinds : Create(fl, imm, k)
  \/ Loop
  \/ \E s \in Signals, x \in Values : SetSignal(s, x)
  \/ Stop
  \/ Dispose
  \/ ToAnySubscriber
  \/ Pause
  \/ Resume

Spec == Init /\ [][Next]_vars

\* the task runner polls a woken task, and user calls return
FairSpec == Spec /\ WF_vars(Loop)

(* ------------------------- the effect-scope flag ---------------------- *)
effectVars == <<configVars, slot, recordVars, pending, pc, first_run, cellVars,
                paused, owned, observer, scope, initial, val, subs, resolved,
                histVars>>

\* in_effect_scope: `EFFECT_SCOPE_ACTIVE.with(Cell::get)` on the caller's thread
in_effect_scope(t) == EFFECT_SCOPE_ACTIVE[t]

\* the flag forced to false when the call returns
RestoreFalse(saved) == FALSE

\* `EFFECT_SCOPE_ACTIVE.with(|scope| scope.set(initial))`
Restore(saved) == saved

\* run_in_effect_scope up to the call of `fun`: the flag is read into
\* `initial` and set to true
ScopeEnter(t) ==
  /\ calls[t] < MaxCalls
  /\ calls' = [calls EXCEPT ![t] = @ + 1]
  /\ frames' = [frames EXCEPT ![t] = Append(@, EFFECT_SCOPE_ACTIVE[t])]
  /\ EFFECT_SCOPE_ACTIVE' = [EFFECT_SCOPE_ACTIVE EXCEPT ![t] = TRUE]
  /\ UNCHANGED <<effectVars, seen>>

\* run_in_effect_scope after `fun` returned: the innermost call in progress
\* on the thread writes its `initial` back
ScopeExit(t) ==
  /\ frames[t] # <<>>
  /\ EFFECT_SCOPE_ACTIVE' =
       [EFFECT_SCOPE_ACTIVE EXCEPT ![t] = Restore(frames[t][Len(frames[t])])]
  /\ frames' = [frames EXCEPT ![t] = SubSeq(@, 1, Len(@) - 1)]
  /\ UNCHANGED <<effectVars, calls, seen>>

\* code running on a thread, inside or outside `fun`, asks in_effect_scope()
ScopeQuery(t) ==
  /\ seen' = [seen EXCEPT ![t] = Some(<<Len(frames[t]), in_effect_scope(t)>>)]
  /\ UNCHANGED <<effectVars, EFFECT_SCOPE_ACTIVE, frames, calls>>

ScopeNext ==
  \/ \E t \in Threads : ScopeEnter(t)
  \/ \E t \in Threads : ScopeExit(t)
  \/ \E t \in Threads : ScopeQuery(t)

ScopeSpec == Init /\ [][ScopeNext]_vars

(* ------------------------------- claims -------------------------------- *)
Stopped == slot \in {"stopped", "disposed"}
Idle == pc = "await" /\ ~pending
InUserCall == pc \in {"fn", "fnmid", "dep", "depmid", "handler", "hmid"}

C1Case == flavor = "new" /\ kind = "nodeps" /\ slot # "inert"

\* C1: an Effect::new effect that reads no reactive value is not executed by
\* the constructor, is executed by the spawned loop afterwards, and is executed
\* exactly once in every continuation in which it is never stopped nor paused.
C1_ZeroDepRunsOnce ==
  /\ [](C1Case => started <= 1)
  /\ [][slot = "absent" => started' = 0 /\ completed' = 0 /\ pc' \in {"none", "await"}]_vars
  /\ (<>(paused \/ Stopped) \/ (C1Case ~> (started = 1 /\ completed = 1)))

C1_Witness ==
  /\ C1Case /\ Alive /\ Idle
  /\ started = 1 /\ completed = 1
  /\ sets = MaxSets

\* C2: once an effect that has completed a run is stopped, no execution of
\* its function starts any more, except the one that had already passed the
\* gate when stop() was called; a gate evaluated after the stop stays shut.
C2_StopFreezesCount ==
  [][(Stopped /\ completed >= 1) =>
       /\ (pc # "body" => started' = started)
       /\ (pc = "gate" => pc' # "body")]_vars

C2_Witness ==
  /\ IsWatch /\ Stopped /\ completed = 1 /\ started = 1
  /\ dep_value = Some(0) /\ "V" \in subs /\ val["V"] = 1 /\ notified = 0
  /\ pc = "done"

C4_ChangeRunsOnceRewriteNever ==
  /\ [](kind = "readV" => started <= 1 + notified)
  /\ [](kind = "readV" /\ Alive /\ Idle /\ ~dirty /\ notified <= 1
          => started = 1 + notified)
  /\ [][(sets' = sets + 1 /\ val' = val)
          => UNCHANGED <<dirty, pending, notified, started>>]_vars

C4_Witness ==
  /\ kind = "readV" /\ ~IsWatch /\ Alive /\ Idle /\ ~dirty
  /\ val["V"] = 1 /\ sets = 2 /\ notified = 1
  /\ started = 2 /\ completed = 2

\* C5: at most one execution of the effect's function is in flight, and an
\* execution starts only when every earlier one has returned and its output
\* is in the cell.
C5_NoOverlap ==
  /\ [](started - completed \in {0, 1})
  /\ [](started - completed = 1 <=> InUserCall)
  /\ [][started' > started =>
          /\ completed = started
          /\ (completed >= 1 =>
                IF IsWatch THEN dep_value # None ELSE value # None)]_vars

C5_Witness ==
  /\ pc = "fnmid" /\ pending /\ dirty
  /\ started = 2 /\ completed = 1
  /\ IsSync

\* C6: the tracked source set after a run is exactly what that run read: for
\* an effect that reads V only while F is true, once it has rerun with F
\* false a change of V alone notifies nothing.
C6_SourcesAreLastReads ==
  /\ [](Alive /\ pc = "await" /\ ~dirty /\ completed >= 1
          => sources = ReadSet(kind, val) /\ subs = sources)
  /\ [][(kind = "condV" /\ Alive /\ pc = "await" /\ ~dirty /\ completed >= 1
           /\ val["F"] = 0 /\ val'["V"] # val["V"])
          => UNCHANGED <<dirty, pending, notified, started>>]_vars

C6_Witness ==
  /\ kind = "condV" /\ flavor = "new" /\ Alive /\ Idle /\ ~dirty
  /\ val["F"] = 0 /\ val["V"] = 1 /\ sources = {"F"}
  /\ started = 2 /\ completed = 2 /\ notified = 1 /\ sets = 2

\* C7: the function of new / new_sync / new_isomorphic gets None on its first
\* execution and the value its previous execution returned on every later
\* one, so previous.unwrap_or(0) + 1 returns n on the n-th execution.
C7_PreviousOutputThreaded ==
  ~IsWatch =>
    /\ (pc \in {"fn", "fnmid"} =>
          old_value = IF started = 1 THEN None ELSE Some(started - 1))
    /\ (pc \notin {"fn", "fnmid"} /\ completed >= 1 => value = Some(completed))

C7_Witness ==
  /\ ~IsWatch /\ pc = "await" /\ completed = 2 /\ value = Some(2)

\* C8: with immediate = false the handler of watch / watch_sync is not invoked
\* in the first qualifying iteration and is invoked only after a dependency
\* changed; with immediate = true it is invoked in the first iteration with
\* previous-dependency None.
C8_ImmediateDecidesFirstTick ==
  IsWatch =>
    /\ (~immediate /\ pc \in {"handler", "hmid"} => started >= 2 /\ notified >= 1)
    /\ (~immediate /\ started >= 1 => handlerCalls <= started - 1)
    /\ (~immediate /\ handlerCalls >= 1 => notified >= 1)
    /\ (immediate /\ pc \notin {"dep", "depmid"} => handlerCalls = started)
    /\ (immediate /\ pc \in {"handler", "hmid"} /\ started = 1 => old_dep = None)

C8_Witness ==
  /\ IsWatch /\ ~immediate /\ pc = "hmid"
  /\ started = 2 /\ completed = 1 /\ handlerCalls = 1 /\ old_dep = Some(0)

\* C9: a reactive value read only by the handler of watch / watch_sync is
\* never tracked, and changing it notifies nothing.
C9_HandlerReadsUntracked ==
  /\ [](IsWatch => "H" \notin sources \cup subs)
  /\ [][val'["H"] # val["H"] => UNCHANGED <<dirty, pending, notified, started>>]_vars

C9_Witness ==
  /\ IsWatch /\ Alive /\ Idle /\ ~dirty
  /\ hSeen # None /\ hSeen # Some(val["H"])
  /\ handlerCalls = 1

\* C10: on the inert handle that construction returns when effects are
\* disabled, stop(), dispose() and to_any_subscriber all complete without
\* failing and change nothing.
C10_InertHandleOpsAreNoops ==
  [][slot = "inert" =>
       /\ resolved' # "panic"
       /\ UNCHANGED <<slot, recordVars, pending, pc>>]_vars

\* C11: with effects disabled an effect built by new_isomorphic still has a
\* live record and executes (first run, then one rerun per change), while
\* new, watch, new_sync and watch_sync build an inert handle and never
\* execute a user function.
C11_OnlyIsomorphicBypassesToggle ==
  (~effects /\ flavor # "none") =>
    IF flavor = "new_isomorphic"
      THEN /\ slot # "inert" /\ pc # "none"
           /\ (Alive /\ Idle /\ ~dirty => started >= 1)
           /\ (Alive /\ Idle /\ ~dirty /\ kind = "readV" /\ notified <= 1
                 => started = 1 + notified)
      ELSE /\ slot = "inert" /\ pc = "none"
           /\ started = 0 /\ completed = 0 /\ handlerCalls = 0

C11_Witness ==
  /\ ~effects /\ flavor = "new_isomorphic" /\ kind = "readV"
  /\ Alive /\ Idle /\ ~dirty
  /\ notified = 1 /\ started = 2 /\ completed = 2

\* C12: once the effect is stopped or disposed, to_any_subscriber never
\* yields a subscriber: every outcome it produces from then on is the panic.
C12_ResolveAfterStopPanics ==
  [][Stopped => (resolved' = resolved \/ resolved' = "panic")]_vars

C12_Witness ==
  /\ slot = "disposed" /\ resolved = "panic" /\ completed >= 1

\* C13: stop() and dispose() are equivalent and idempotent: each drops the
\* live record and changes nothing else, a call on an already stopped or
\* disposed effect changes no more than the slot's tag, and the effect never
\* becomes live again.
C13_StopDisposeIdempotent ==
  /\ [](Stopped => ~dirty /\ sources = {})
  /\ [][Stopped => Stopped']_vars
  /\ [][slot' # slot /\ slot # "absent" =>
          /\ Stopped'
          /\ UNCHANGED <<configVars, pending, pc, first_run, cellVars, paused,
                         owned, observer, scope, initial, val, subs, resolved,
                         histVars>>]_vars

C13_Witness ==
  /\ slot = "disposed" /\ pc = "done" /\ resolved = "none"
  /\ completed = 2 /\ notified = 1

\* C14: after stop() or dispose() has removed the record the driving loop
\* terminates by itself, and a terminated loop runs nothing any more.
C14_LoopEndsAfterStop ==
  /\ Stopped ~> pc = "done"
  /\ [][pc = "done" => pc' = "done" /\ UNCHANGED <<started, completed, handlerCalls>>]_vars

C14_Witness ==
  /\ slot = "stopped" /\ pc = "done" /\ completed = 1 /\ ~pending

\* C15: a change of a tracked source that arrives while the effect's function
\* is executing is not lost: unless the effect is stopped or its scope paused,
\* the function is executed again after the current execution.
C15_ChangeDuringRunNotLost ==
  \A n \in 1..(MaxSets + 1) :
    (Alive /\ InUserCall /\ dirty /\ pending /\ started = n)
      ~> (started > n \/ paused \/ Stopped)

C15_Witness ==
  /\ flavor = "new" /\ pc = "fnmid" /\ Alive /\ ~paused
  /\ "V" \in sources /\ dirty /\ pending /\ started = 1

\* C16: an iteration executes the user function (or dependency_fn) only if
\* its gate found the record stale or no run has completed yet; a wake whose
\* gate finds the record clean after the first run executes nothing.
C16_RunsOnlyWhenStaleOrFirst ==
  /\ [][(pc = "gate" /\ pc' = "body")
          => ~paused /\ ((Alive /\ dirty) \/ completed = 0)]_vars
  /\ [][(pc = "gate" /\ pc' # "gate" /\ ~(Alive /\ dirty) /\ completed >= 1)
          => /\ pc' = "await"
             /\ UNCHANGED <<started, completed, handlerCalls, sources, subs,
                            cellVars, first_run>>]_vars
  /\ [][started' # started => pc = "body"]_vars

C16_Witness ==
  /\ pc = "gate" /\ Alive /\ ~paused /\ ~dirty /\ completed = 2

\* C17: an iteration whose gate finds the scope paused runs nothing and
\* leaves the dirty flag, the source set, first_run and the cells as they
\* were, so that the gate of the next wake taken while not paused still opens.
C17_PausedIterationKeepsState ==
  /\ [][(pc = "gate" /\ paused /\ pc' # "gate")
          => /\ pc' = "await"
             /\ UNCHANGED <<dirty, sources, subs, first_run, cellVars, started,
                            completed, handlerCalls, owned, observer, scope>>]_vars
  /\ [][(pc = "gate" /\ ~paused /\ pc' # "gate" /\ ((Alive /\ dirty) \/ first_run))
          => pc' = "body"]_vars

C17_Witness ==
  /\ Alive /\ Idle /\ dirty /\ ~paused /\ completed = 1 /\ notified = 1

\* C19: every qualifying iteration of watch / watch_sync stores the new
\* dependency value, handler or not; the handler gets the dependency value of
\* the preceding iteration and the output of its own preceding invocation, so
\* with immediate = false its first invocation gets Some(tick-1 value), None.
C19_WatchSnapshotsThreaded ==
  IsWatch =>
    /\ (pc \in {"await", "gate", "body", "done"} /\ completed >= 1
          => dep_value # None)
    /\ (Alive /\ pc = "await" /\ ~dirty /\ completed >= 1
          => dep_value = Some(DepResult(kind, val)))
    /\ (pc \in {"handler", "hmid"}
          => /\ (old_dep = None <=> started = 1)
             /\ old_watch = IF handlerCalls = 1 THEN None
                                                ELSE Some(handlerCalls - 1))
    /\ (pc \in {"handler", "hmid"} /\ ~immediate /\ handlerCalls = 1
          => started = 2 /\ old_dep # None /\ old_watch = None)

C19_Witness ==
  /\ IsWatch /\ ~immediate /\ kind = "readV" /\ pc = "hmid"
  /\ started = 3 /\ handlerCalls = 2
  /\ old_dep = Some(1) /\ new_dep = Some(0) /\ old_watch = Some(1)

\* C18: the executions begun never exceed one more than the number of times
\* a change notification found the record clean, and at rest they equal it:
\* notifications that pile up on an already dirty record cause one
\* re-execution together, and surplus wakes cause none.
C18_OneRerunPerBatch ==
  /\ started <= 1 + batches
  /\ (Alive /\ Idle /\ ~dirty => started = 1 + batches)

C18_Witness ==
  /\ Alive /\ Idle /\ ~dirty
  /\ notified = 2 /\ batches = 1 /\ started = 2 /\ completed = 2

\* C20: on every thread the flag is true exactly while a run_in_effect_scope
\* call is in progress there, in_effect_scope() answers accordingly, and a
\* returning call leaves the flag at the value it had just before that call.
C20_ScopeFlagNests ==
  /\ [](\A t \in Threads : EFFECT_SCOPE_ACTIVE[t] <=> frames[t] # <<>>)
  /\ [](\A t \in Threads : seen[t] # None => seen[t][1][2] = (seen[t][1][1] > 0))
  /\ [][\A t \in Threads :
          Len(frames'[t]) < Len(frames[t])
            => EFFECT_SCOPE_ACTIVE'[t] = (Len(frames[t]) > 1)]_vars

C20_Witness ==
  /\ calls["t1"] = 2 /\ Len(frames["t1"]) = 1 /\ EFFECT_SCOPE_ACTIVE["t1"]
  /\ seen["t1"] = Some(<<1, TRUE>>)
  /\ frames["t2"] = <<>> /\ ~EFFECT_SCOPE_ACTIVE["t2"]

\* C21: while the driving loop of any flavour is inside a user call (the
\* effect function, or dependency_fn or the handler of watch / watch_sync),
\* the effect-scope flag of the thread that runs the task is true.
C21_ScopeFlagInUserCalls == InUserCall => scope
====
